---- MODULE Spec2Model ----
\* A model of mage-core: the geometry primitives, the cell-grid drawing
\* operations (src/src/image.rs), the compositor's blit and clear
\* (src/src/present.rs) and the event loop's resize handling (src/src/lib.rs,
\* src/src/render.rs).
EXTENDS Integers, Sequences, FiniteSets, TLC

\* ---------------------------------------------------------------------------
\* Bounds of the model
\* ---------------------------------------------------------------------------

\* Width and height, in cells, of the grid the drawing operations act on.
GridW == 3
GridH == 2
\* Width and height, in cells, of the source image of a blit.
SrcW == 2
SrcH == 2
\* Targets reach from Margin cells before the origin to one cell past the edge.
Margin == 2
\* Longest string drawn, largest rectangle extent drawn or blitted.
MaxLen == 5
MaxRectW == 3
MaxRectH == 2
\* Number of drawing calls made on one image.
MaxOps == 1
\* How far outside the bounds the clipped rectangles start.
ClipMargin == 3
\* Largest excess of a requested pixel size over its base, largest scale.
MaxExtra == 8
MaxScale == 3
MaxSeq == 3
MaxFontDim == 33

\* Columns reach Margin cells left of the image and one past its right edge;
\* rows reach one cell above and one below it.
Xs == (0 - Margin)..(GridW + 1)
Ys == (0 - 1)..GridH

\* ---------------------------------------------------------------------------
\* Machine integers
\* ---------------------------------------------------------------------------
\* An i32 is the integer itself.  A u32 is represented by the i32 with the same
\* 32 bits, so that `as u32` and `as i32` keep the representative and a
\* negative representative r stands for the u32 value 2^32 + r (at least 2^31).
\* A usize is the integer itself, or Huge for any value of at least 2^31 (the
\* zero-extension of such a u32, or the sign-extension of a negative i32);
\* usize is taken to be 64 bits wide, so adding a small value to a huge one
\* does not wrap.  The coordinates of the model are small enough that no i32
\* addition overflows.

Min(a, b) == IF a <= b THEN a ELSE b
Max(a, b) == IF a >= b THEN a ELSE b

Huge == 0 - 1

\* `as u32` of an i32, `as i32` of a u32: the bits are kept.
AsU32(n) == n
AsI32(n) == n
\* a < b on u32 values.
U32Lt(a, b) == IF (a < 0) = (b < 0) THEN a < b ELSE b < 0
\* a - b on u32 values: the wrapped difference, and whether it overflowed.
U32Sub(a, b) == [value |-> a - b, overflow |-> U32Lt(a, b)]
\* `as usize` of a u32 or of an i32.
AsUsize(n) == IF n < 0 THEN Huge ELSE n
\* a + b on usize values.
UsizeAdd(a, b) == IF a < 0 \/ b < 0 THEN Huge ELSE a + b

\* ---------------------------------------------------------------------------
\* Geometry (image.rs)
\* ---------------------------------------------------------------------------

Point(x, y) == [x |-> x, y |-> y]
Rect(x, y, w, h) == [x |-> x, y |-> y, width |-> w, height |-> h]

from_point_and_size(p, w, h) == Rect(p.x, p.y, w, h)

\* The intersection measuring its extent from the rectangle's own origin.
intersect_extent_from_own_origin(self, other) ==
    LET x == Max(self.x, other.x)
        y == Max(self.y, other.y)
        width == Min(self.x + AsI32(self.width), other.x + AsI32(other.width)) - self.x
        height == Min(self.y + AsI32(self.height), other.y + AsI32(other.height)) - self.y
    IN Rect(x, y, AsU32(width), AsU32(height))

intersect(self, other) ==
    LET x == Max(self.x, other.x)
        y == Max(self.y, other.y)
        width == Min(self.x + AsI32(self.width), other.x + AsI32(other.width)) - x
        height == Min(self.y + AsI32(self.height), other.y + AsI32(other.height)) - y
    IN Rect(x, y, AsU32(width), AsU32(height))

\* The union measuring its extent from the rectangle's own origin.
union_extent_from_own_origin(self, other) ==
    LET x == Min(self.x, other.x)
        y == Min(self.y, other.y)
        width == Max(self.x + AsI32(self.width), other.x + AsI32(other.width)) - self.x
        height == Max(self.y + AsI32(self.height), other.y + AsI32(other.height)) - self.y
    IN Rect(x, y, AsU32(width), AsU32(height))

union(self, other) ==
    LET x == Min(self.x, other.x)
        y == Min(self.y, other.y)
        width == Max(self.x + AsI32(self.width), other.x + AsI32(other.width)) - x
        height == Max(self.y + AsI32(self.height), other.y + AsI32(other.height)) - y
    IN Rect(x, y, AsU32(width), AsU32(height))

clip_within(self, width, height) ==
    [rect   |-> intersect(self, Rect(0, 0, width, height)),
     offset |-> Point(0 - Min(self.x, 0), 0 - Min(self.y, 0))]

\* ---------------------------------------------------------------------------
\* Cell grid (image.rs)
\* ---------------------------------------------------------------------------

\* A plane is a function from the indices 0..len-1 to 32-bit values.
Plane(len, v) == [k \in 0..(len - 1) |-> v]
PlaneLen(plane) == Cardinality(DOMAIN plane)

Char(ch, ink, paper) == [ch |-> ch, ink |-> ink, paper |-> paper]

\* Image::new sizing the planes by the sum of the dimensions.
Image_new_size_by_sum(width, height) ==
    [width      |-> width,
     height     |-> height,
     fore_image |-> Plane(AsU32(width + height), 0),
     back_image |-> Plane(AsU32(width + height), 0),
     text_image |-> Plane(AsU32(width + height), 0)]

Image_new(width, height) ==
    [width      |-> width,
     height     |-> height,
     fore_image |-> Plane(AsU32(width * height), 0),
     back_image |-> Plane(AsU32(width * height), 0),
     text_image |-> Plane(AsU32(width * height), 0)]

\* Option<usize>: None is modelled as -1.
None == 0 - 1

coords_to_index(self, x, y) ==
    IF x < 0 \/ y < 0
    THEN None
    ELSE IF x < self.width /\ y < self.height
         THEN y * self.width + x
         ELSE None

point_to_index(self, p) == coords_to_index(self, p.x, p.y)

\* The outcome of a call: the image it leaves and whether it panicked.
Done(im) == [im |-> im, panicked |-> FALSE]
Panic(im) == [im |-> im, panicked |-> TRUE]

\* plane[s..e]: the range check of a slice expression on usize bounds.
SliceOk(plane, s, e) == s >= 0 /\ e >= 0 /\ s <= e /\ e <= PlaneLen(plane)
\* plane[s..e].fill(v)
Fill(plane, s, e, v) == [k \in DOMAIN plane |-> IF s <= k /\ k < e THEN v ELSE plane[k]]

Image_clear(self, ink, paper) ==
    [self EXCEPT !.fore_image = [k \in DOMAIN self.fore_image |-> ink],
                 !.back_image = [k \in DOMAIN self.back_image |-> paper],
                 !.text_image = [k \in DOMAIN self.text_image |-> 0]]

draw_char(self, p, ch) ==
    LET index == point_to_index(self, p)
    IN IF index # None
       THEN Done([self EXCEPT !.fore_image[index] = ch.ink,
                              !.back_image[index] = ch.paper,
                              !.text_image[index] = ch.ch])
       ELSE Done(self)

\* draw_string taking the characters from the start of the string instead of
\* from the clip offset.
draw_string_from_start(self, p, text, ink, paper) ==
    LET c == clip_within(from_point_and_size(p, AsU32(Len(text)), 1), self.width, self.height)
        i == coords_to_index(self, c.rect.x, c.rect.y)
        w == AsUsize(c.rect.width)
    IN IF c.offset.y = 0
       THEN IF ~(w >= 0 /\ w <= Len(text))
            THEN Panic(self)
            ELSE IF i # None
                 THEN IF ~SliceOk(self.fore_image, i, UsizeAdd(i, w))
                      THEN Panic(self)
                      ELSE Done([self EXCEPT
                             !.fore_image = Fill(self.fore_image, i, i + w, ink),
                             !.back_image = Fill(self.back_image, i, i + w, paper),
                             !.text_image = [k \in DOMAIN self.text_image |->
                                               IF i <= k /\ k < i + w
                                               THEN text[(k - i) + 1]
                                               ELSE self.text_image[k]]])
                 ELSE Done(self)
       ELSE Done(self)

\* text is the sequence of the bytes of the string.
draw_string(self, p, text, ink, paper) ==
    LET c == clip_within(from_point_and_size(p, AsU32(Len(text)), 1), self.width, self.height)
        text_rect == c.rect
        str_offset == c.offset
        s == AsUsize(str_offset.x)
        e == AsUsize(str_offset.x + AsI32(text_rect.width))
        i == coords_to_index(self, text_rect.x, text_rect.y)
        w == AsUsize(text_rect.width)
    IN IF str_offset.y = 0
       THEN IF ~(e >= 0 /\ s <= e /\ e <= Len(text))
            THEN Panic(self)
            ELSE IF i # None
                 THEN IF ~SliceOk(self.fore_image, i, UsizeAdd(i, w))
                      THEN Panic(self)
                      ELSE Done([self EXCEPT
                             !.fore_image = Fill(self.fore_image, i, i + w, ink),
                             !.back_image = Fill(self.back_image, i, i + w, paper),
                             !.text_image = [k \in DOMAIN self.text_image |->
                                               IF i <= k /\ k < i + w /\ k - i < e - s
                                               THEN text[s + (k - i) + 1]
                                               ELSE self.text_image[k]]])
                 ELSE Done(self)
       ELSE Done(self)

\* The row loop shared by draw_filled_rect and the compositor's clear: n rows
\* (a u32 count) of w cells (a usize) starting at index i, one grid row apart;
\* a slice out of range panics, leaving the rows before it written.
RECURSIVE FillRows(_, _, _, _, _, _, _)
FillRows(self, i, w, n, fore, back, glyph) ==
    IF n = 0
    THEN Done(self)
    ELSE IF ~SliceOk(self.fore_image, i, UsizeAdd(i, w))
         THEN Panic(self)
         ELSE FillRows([self EXCEPT !.fore_image = Fill(self.fore_image, i, i + w, fore),
                                    !.back_image = Fill(self.back_image, i, i + w, back),
                                    !.text_image = Fill(self.text_image, i, i + w, glyph)],
                       i + self.width, w, IF n < 0 THEN n ELSE n - 1, fore, back, glyph)

\* draw_filled_rect starting at the index of the unclipped origin.
draw_filled_rect_unclipped_origin(self, rect0, ch) ==
    LET rect == clip_within(rect0, self.width, self.height).rect
        i == coords_to_index(self, rect0.x, rect0.y)
    IN IF i # None
       THEN FillRows(self, i, AsUsize(rect.width), rect.height, ch.ink, ch.paper, ch.ch)
       ELSE Done(self)

draw_filled_rect(self, rect0, ch) ==
    LET rect == clip_within(rect0, self.width, self.height).rect
        i == coords_to_index(self, rect.x, rect.y)
    IN IF i # None
       THEN FillRows(self, i, AsUsize(rect.width), rect.height, ch.ink, ch.paper, ch.ch)
       ELSE Done(self)

\* ---------------------------------------------------------------------------
\* Compositor (present.rs)
\* ---------------------------------------------------------------------------
\* A PresentInput is modelled by the same record as an Image: its width and
\* height and the three live planes it borrows.

\* clear filling the glyph plane with paper as well.
PresentInput_clear_glyph_to_paper(self, rect, paper) ==
    IF ~(rect.x >= 0 /\ rect.y >= 0)
    THEN Panic(self)
    ELSE IF ~(rect.x + AsI32(rect.width) <= AsI32(self.width))
    THEN Panic(self)
    ELSE IF ~(rect.y + AsI32(rect.height) <= AsI32(self.height))
    THEN Panic(self)
    ELSE FillRows(self, AsUsize(rect.y) * self.width + AsUsize(rect.x),
                  AsUsize(rect.width), rect.height, paper, paper, paper)

PresentInput_clear(self, rect, paper) ==
    IF ~(rect.x >= 0 /\ rect.y >= 0)
    THEN Panic(self)
    ELSE IF ~(rect.x + AsI32(rect.width) <= AsI32(self.width))
    THEN Panic(self)
    ELSE IF ~(rect.y + AsI32(rect.height) <= AsI32(self.height))
    THEN Panic(self)
    ELSE FillRows(self, AsUsize(rect.y) * self.width + AsUsize(rect.x),
                  AsUsize(rect.width), rect.height, paper, paper, 0)

\* plane[d..d+w].copy_from_slice(&src[s..s+w])
CopySlice(plane, d, src, s, w) ==
    [k \in DOMAIN plane |-> IF d <= k /\ k < d + w THEN src[s + (k - d)] ELSE plane[k]]

\* The row loop of blit_internal: n rows (a u32 count) of w cells (a usize).
RECURSIVE CopyRows(_, _, _, _, _, _)
CopyRows(self, dst_i, src_image, src_i, w, n) ==
    IF n = 0
    THEN Done(self)
    ELSE IF ~SliceOk(self.fore_image, dst_i, UsizeAdd(dst_i, w))
            \/ ~SliceOk(src_image.fore_image, src_i, UsizeAdd(src_i, w))
         THEN Panic(self)
         ELSE CopyRows([self EXCEPT
                          !.fore_image = CopySlice(self.fore_image, dst_i, src_image.fore_image, src_i, w),
                          !.back_image = CopySlice(self.back_image, dst_i, src_image.back_image, src_i, w),
                          !.text_image = CopySlice(self.text_image, dst_i, src_image.text_image, src_i, w)],
                       dst_i + self.width, src_image, src_i + src_image.width, w,
                       IF n < 0 THEN n ELSE n - 1)

\* blit_internal with the source index computed with the destination's width.
blit_internal_dst_stride(self, dst_rect, src_rect, src_image) ==
    IF dst_rect.width # src_rect.width \/ dst_rect.height # src_rect.height
    THEN Panic(self)
    ELSE IF ~(dst_rect.x >= 0 /\ dst_rect.y >= 0)
    THEN Panic(self)
    ELSE IF ~(dst_rect.x + AsI32(dst_rect.width) <= AsI32(self.width))
    THEN Panic(self)
    ELSE IF ~(dst_rect.y + AsI32(dst_rect.height) <= AsI32(self.height))
    THEN Panic(self)
    ELSE CopyRows(self, AsUsize(dst_rect.y) * self.width + AsUsize(dst_rect.x),
                  src_image,
                  UsizeAdd(IF src_rect.y < 0 THEN Huge ELSE src_rect.y * self.width,
                           AsUsize(src_rect.x)),
                  AsUsize(dst_rect.width), dst_rect.height)

blit_internal(self, dst_rect, src_rect, src_image) ==
    IF dst_rect.width # src_rect.width
    THEN Panic(self)
    ELSE IF dst_rect.height # src_rect.height
    THEN Panic(self)
    ELSE IF ~(dst_rect.x >= 0 /\ dst_rect.y >= 0)
    THEN Panic(self)
    ELSE IF ~(dst_rect.x + AsI32(dst_rect.width) <= AsI32(self.width))
    THEN Panic(self)
    ELSE IF ~(dst_rect.y + AsI32(dst_rect.height) <= AsI32(self.height))
    THEN Panic(self)
    ELSE CopyRows(self, AsUsize(dst_rect.y) * self.width + AsUsize(dst_rect.x),
                  src_image,
                  UsizeAdd(IF src_rect.y < 0 THEN Huge ELSE src_rect.y * src_image.width,
                           AsUsize(src_rect.x)),
                  AsUsize(dst_rect.width), dst_rect.height)

\* The four steps of blit after clipping.  checks is the build's
\* overflow-checks setting: with it a u32 subtraction that overflows panics,
\* without it the difference wraps.
blit_clipped(self, dst_rect, src_rect, src_offset, src_image, paper, checks) ==
    LET offx == AsU32(src_offset.x)
        offy == AsU32(src_offset.y)
        wsub == U32Sub(dst_rect.width, offx)
        hsub == U32Sub(dst_rect.height, offy)
        r1 == PresentInput_clear(self, Rect(dst_rect.x, dst_rect.y, offx, offy), paper)
        r2 == IF r1.panicked THEN r1
              ELSE IF checks /\ wsub.overflow THEN Panic(r1.im)
              ELSE PresentInput_clear(r1.im,
                       Rect(dst_rect.x + src_offset.x, dst_rect.y, wsub.value, offy), paper)
        r3 == IF r2.panicked THEN r2
              ELSE IF checks /\ hsub.overflow THEN Panic(r2.im)
              ELSE PresentInput_clear(r2.im,
                       Rect(dst_rect.x, dst_rect.y + src_offset.y, offx, hsub.value), paper)
    IN IF r3.panicked THEN r3
       ELSE blit_internal(r3.im,
                Rect(dst_rect.x + src_offset.x, dst_rect.y + src_offset.y, wsub.value, hsub.value),
                src_rect, src_image)

\* blit without the two assertions on the sizes of the rectangles.
blit_without_size_asserts(self, dst_rect0, src_rect0, src_image, paper, checks) ==
    IF ~(dst_rect0.x >= 0 /\ dst_rect0.y >= 0)
    THEN Panic(self)
    ELSE IF ~(dst_rect0.x + AsI32(dst_rect0.width) <= AsI32(self.width))
    THEN Panic(self)
    ELSE IF ~(dst_rect0.y + AsI32(dst_rect0.height) <= AsI32(self.height))
    THEN Panic(self)
    ELSE LET c == clip_within(src_rect0, src_image.width, src_image.height)
             src_rect == c.rect
             dst_rect == [dst_rect0 EXCEPT !.width = src_rect.width, !.height = src_rect.height]
         IN IF src_rect.width = 0 \/ src_rect.height = 0
            THEN PresentInput_clear(self, dst_rect, paper)
            ELSE blit_clipped(self, dst_rect, src_rect, c.offset, src_image, paper, checks)

blit(self, dst_rect0, src_rect0, src_image, paper, checks) ==
    IF dst_rect0.width # src_rect0.width
    THEN Panic(self)
    ELSE IF dst_rect0.height # src_rect0.height
    THEN Panic(self)
    ELSE IF ~(dst_rect0.x >= 0 /\ dst_rect0.y >= 0)
    THEN Panic(self)
    ELSE IF ~(dst_rect0.x + AsI32(dst_rect0.width) <= AsI32(self.width))
    THEN Panic(self)
    ELSE IF ~(dst_rect0.y + AsI32(dst_rect0.height) <= AsI32(self.height))
    THEN Panic(self)
    ELSE LET c == clip_within(src_rect0, src_image.width, src_image.height)
             src_rect == c.rect
             dst_rect == [dst_rect0 EXCEPT !.width = src_rect.width, !.height = src_rect.height]
         IN IF src_rect.width = 0 \/ src_rect.height = 0
            THEN PresentInput_clear(self, dst_rect, paper)
            ELSE blit_clipped(self, dst_rect, src_rect, c.offset, src_image, paper, checks)

\* ---------------------------------------------------------------------------
\* State
\* ---------------------------------------------------------------------------

VARIABLES
    img,              \* the image or the live planes the calls act on
    old,              \* img as it was before the last call
    call,             \* the last call made and its arguments
    panicked,         \* the last call panicked (the program has aborted)
    overflow_checks,  \* the build panics on integer overflow (debug) or wraps (release)
    nops,             \* number of calls made
    arg,              \* the arguments a function has been applied to
    ret,              \* what the function returned
    config,           \* run's Config: the window-size mode and the font
    policy,           \* the tuple run computes from the mode and the font
    window,           \* the host window: inner size, fullscreen, undelivered Resized events
    render_state,     \* RenderState: surface configuration, grid size, plane textures
    can_start_resizing,
    shift_state,
    exited,           \* ev_loop.exit() has been called
    stopped,          \* the host has stopped the event loop
    hist,             \* what has happened since the window was created
    ev                \* the last event handled and what its handler did

drawVars == <<img, old, call, panicked, overflow_checks, nops, arg, ret>>
loopVars == <<config, policy, window, render_state, can_start_resizing, shift_state, exited,
              stopped, hist, ev>>
vars == <<img, old, call, panicked, overflow_checks, nops, arg, ret,
          config, policy, window, render_state, can_start_resizing, shift_state, exited,
          stopped, hist, ev>>

NoPoint == Point(0, 0)
NoRect == Rect(0, 0, 0, 0)
NoChar == Char(0, 0, 0)
Call(op, p, text, ch, rect, src_rect) ==
    [op |-> op, p |-> p, text |-> text, ch |-> ch, rect |-> rect, src_rect |-> src_rect]
NoCall == Call("none", NoPoint, <<>>, NoChar, NoRect, NoRect)

\* The inputs of the calls.
Points == {Point(x, y) : x \in Xs, y \in Ys}
Rects == {Rect(x, y, w, h) : x \in Xs, y \in Ys, w \in 0..MaxRectW, h \in 0..MaxRectH}
\* The strings "", "A", "AB", "ABC", ... as byte sequences.
Texts == {[k \in 1..n |-> 64 + k] : n \in 0..MaxLen}
\* The colours and the glyph the calls draw with.
Pen == [ink |-> 1, paper |-> 2, ch |-> 88]
Chars == {Char(Pen.ch, Pen.ink, Pen.paper)}

\* The outcome r of a call becomes the state.
Apply(r, c) ==
    /\ img' = r.im
    /\ old' = img
    /\ call' = c
    /\ panicked' = r.panicked
    /\ nops' = nops + 1
    /\ UNCHANGED <<overflow_checks, arg, ret>>
    /\ UNCHANGED loopVars

\* The event loop is not running while the drawing calls are examined.
LoopIdle ==
    /\ config = <<>>
    /\ policy = <<>>
    /\ window = <<>>
    /\ render_state = <<>>
    /\ can_start_resizing = FALSE
    /\ shift_state = <<>>
    /\ exited = FALSE
    /\ stopped = FALSE
    /\ hist = <<>>
    /\ ev = <<>>

\* ---------------------------------------------------------------------------
\* Drawing on an image
\* ---------------------------------------------------------------------------

InitImage ==
    /\ img = Image_new(GridW, GridH)
    /\ old = img
    /\ call = NoCall
    /\ panicked = FALSE
    \* no arithmetic of the drawing calls depends on the overflow checks
    /\ overflow_checks = FALSE
    /\ nops = 0
    /\ arg = <<>>
    /\ ret = <<>>
    /\ LoopIdle

CanDraw == ~panicked /\ nops < MaxOps

ClearImage ==
    /\ CanDraw
    /\ Apply(Done(Image_clear(img, Pen.ink, Pen.paper)),
             Call("clear", NoPoint, <<>>, Char(0, Pen.ink, Pen.paper), NoRect, NoRect))

DrawChar ==
    /\ CanDraw
    /\ \E p \in Points, ch \in Chars :
         Apply(draw_char(img, p, ch), Call("draw_char", p, <<>>, ch, NoRect, NoRect))

DrawString ==
    /\ CanDraw
    /\ \E p \in Points, text \in Texts :
         Apply(draw_string(img, p, text, Pen.ink, Pen.paper),
               Call("draw_string", p, text, Char(0, Pen.ink, Pen.paper), NoRect, NoRect))

DrawFilledRect ==
    /\ CanDraw
    /\ \E rect \in Rects, ch \in Chars :
         Apply(draw_filled_rect(img, rect, ch),
               Call("draw_filled_rect", NoPoint, <<>>, ch, rect, NoRect))

NextImage == ClearImage \/ DrawChar \/ DrawString \/ DrawFilledRect

SpecImage == InitImage /\ [][NextImage]_vars

\* ---------------------------------------------------------------------------
\* Blitting to the live planes
\* ---------------------------------------------------------------------------

\* The source image of the blits: every cell of every plane is distinct.
SrcImage ==
    [width      |-> SrcW,
     height     |-> SrcH,
     fore_image |-> [k \in 0..(SrcW * SrcH - 1) |-> 100 + k],
     back_image |-> [k \in 0..(SrcW * SrcH - 1) |-> 200 + k],
     text_image |-> [k \in 0..(SrcW * SrcH - 1) |-> 300 + k]]

\* The live planes hold the previous frame.
InitPresent ==
    /\ img = [width      |-> GridW,
              height     |-> GridH,
              fore_image |-> Plane(GridW * GridH, 7),
              back_image |-> Plane(GridW * GridH, 8),
              text_image |-> Plane(GridW * GridH, 9)]
    /\ old = img
    /\ call = NoCall
    /\ panicked = FALSE
    /\ overflow_checks \in BOOLEAN
    /\ nops = 0
    /\ arg = <<>>
    /\ ret = <<>>
    /\ LoopIdle

DstRects == {Rect(x, y, w, h) : x \in (0 - 1)..GridW, y \in (0 - 1)..GridH,
                                w \in 0..MaxRectW, h \in 0..MaxRectH}
SrcOrigins == {Point(x, y) : x \in (0 - Margin)..(SrcW + 1), y \in (0 - Margin)..(SrcH + 1)}

\* One blit of the source image; the source rectangle has the size of the
\* destination rectangle, or is one cell wider or taller.
Blit ==
    /\ nops = 0
    /\ \E dst_rect \in DstRects, o \in SrcOrigins, dw \in 0..1, dh \in 0..1 :
         LET src_rect == Rect(o.x, o.y, dst_rect.width + dw, dst_rect.height + dh)
         IN /\ dw + dh <= 1
            /\ Apply(blit(img, dst_rect, src_rect, SrcImage, Pen.paper, overflow_checks),
                     Call("blit", NoPoint, <<>>, Char(0, Pen.paper, Pen.paper), dst_rect, src_rect))

Clear ==
    /\ nops = 0
    /\ \E rect \in Rects :
         Apply(PresentInput_clear(img, rect, Pen.paper),
               Call("clear", NoPoint, <<>>, Char(0, Pen.paper, Pen.paper), rect, NoRect))

NextPresent == Blit \/ Clear

SpecPresent == InitPresent /\ [][NextPresent]_vars

\* ---------------------------------------------------------------------------
\* Properties of blit
\* ---------------------------------------------------------------------------

\* The three planes of the cell at column x, row y.
CellAt(im, x, y) ==
    [fore  |-> im.fore_image[y * im.width + x],
     back  |-> im.back_image[y * im.width + x],
     glyph |-> im.text_image[y * im.width + x]]
PaperCell(paper) == [fore |-> paper, back |-> paper, glyph |-> 0]

InRect(r, x, y) == r.x <= x /\ x < r.x + r.width /\ r.y <= y /\ y < r.y + r.height
InSrc(x, y) == 0 <= x /\ x < SrcW /\ 0 <= y /\ y < SrcH

\* The last call is a blit that meets blit's preconditions.
BlitCalled ==
    /\ call.op = "blit"
    /\ call.rect.width = call.src_rect.width
    /\ call.rect.height = call.src_rect.height
    /\ call.rect.x >= 0 /\ call.rect.y >= 0
    /\ call.rect.x + call.rect.width <= old.width
    /\ call.rect.y + call.rect.height <= old.height

\* The source rectangle starts left of or above the source image and overlaps it.
SrcLeads ==
    /\ call.src_rect.x <= 0 /\ call.src_rect.y <= 0
    /\ call.src_rect.x < 0 \/ call.src_rect.y < 0
    /\ call.src_rect.x + call.src_rect.width > 0
    /\ call.src_rect.y + call.src_rect.height > 0

\* C1: a blit whose source rectangle starts dx columns left of and dy rows
\* above the source image completes, sets the leading dx columns and dy rows of
\* the destination rectangle to paper and copies the visible source cells into
\* the rest of it.
C1_BlitLeadingEdge ==
    (BlitCalled /\ SrcLeads) =>
        /\ ~panicked
        /\ \A i \in 0..(call.rect.width - 1), j \in 0..(call.rect.height - 1) :
             LET sx == call.src_rect.x + i
                 sy == call.src_rect.y + j
                 cell == CellAt(img, call.rect.x + i, call.rect.y + j)
             IN IF sx < 0 \/ sy < 0
                THEN cell = PaperCell(call.ch.paper)
                ELSE InSrc(sx, sy) => cell = CellAt(SrcImage, sx, sy)

\* The source rectangle lies fully outside the source image.
SrcOutside ==
    \/ call.src_rect.x + call.src_rect.width <= 0
    \/ call.src_rect.x >= SrcW
    \/ call.src_rect.y + call.src_rect.height <= 0
    \/ call.src_rect.y >= SrcH

\* C2: a blit whose source rectangle lies fully outside the source image
\* completes, clears every cell of the destination rectangle to paper and
\* copies nothing.
C2_BlitOutsideClears ==
    (BlitCalled /\ SrcOutside) =>
        /\ ~panicked
        /\ \A x \in 0..(old.width - 1), y \in 0..(old.height - 1) :
             CellAt(img, x, y) = IF InRect(call.rect, x, y)
                                 THEN PaperCell(call.ch.paper)
                                 ELSE CellAt(old, x, y)

\* The source rectangle lies entirely inside the source image.
SrcInside ==
    /\ call.src_rect.x >= 0 /\ call.src_rect.y >= 0
    /\ call.src_rect.x + call.src_rect.width <= SrcW
    /\ call.src_rect.y + call.src_rect.height <= SrcH

\* C3: a blit whose source rectangle lies entirely inside the source image
\* completes; afterwards every cell of the destination rectangle holds, in all
\* three planes, the source cell at the same offset in the source rectangle,
\* and every other cell is unchanged.
C3_BlitInsideCopies ==
    (BlitCalled /\ SrcInside) =>
        /\ ~panicked
        /\ \A x \in 0..(old.width - 1), y \in 0..(old.height - 1) :
             CellAt(img, x, y) =
                 IF InRect(call.rect, x, y)
                 THEN CellAt(SrcImage, call.src_rect.x + (x - call.rect.x),
                                       call.src_rect.y + (y - call.rect.y))
                 ELSE CellAt(old, x, y)

\* A blit of a non-empty interior region, away from both origins, has happened.
C3_Witness ==
    /\ BlitCalled /\ SrcInside /\ ~panicked
    /\ call.rect.width > 0 /\ call.rect.height > 1
    /\ call.rect.x > 0 /\ call.src_rect.x > 0
    /\ img # old

\* C4: after a blit that completes, every cell of the destination rectangle
\* whose source position lies outside the source image has foreground and
\* background paper, and no cell of the destination rectangle keeps its
\* previous content.
C4_BlitPaperOutsideSource ==
    (BlitCalled /\ ~panicked) =>
        \A x \in 0..(old.width - 1), y \in 0..(old.height - 1) :
            InRect(call.rect, x, y) =>
                LET sx == call.src_rect.x + (x - call.rect.x)
                    sy == call.src_rect.y + (y - call.rect.y)
                    cell == CellAt(img, x, y)
                IN IF InSrc(sx, sy)
                   THEN cell = CellAt(SrcImage, sx, sy)
                   ELSE cell.fore = call.ch.paper /\ cell.back = call.ch.paper

\* ---------------------------------------------------------------------------
\* Properties of the drawing operations
\* ---------------------------------------------------------------------------

\* The target of the last drawing call has no cell inside the grid.
TargetOutside ==
    LET r == IF call.op = "draw_char" THEN Rect(call.p.x, call.p.y, 1, 1)
             ELSE IF call.op = "draw_string" THEN Rect(call.p.x, call.p.y, Len(call.text), 1)
             ELSE call.rect
    IN \A x \in 0..(old.width - 1), y \in 0..(old.height - 1) : ~InRect(r, x, y)

\* C5: draw_char, draw_string and draw_filled_rect never fail, wherever the
\* target lies, and leave the planes unchanged when the target lies fully
\* outside the grid.
C5_DrawNeverFails ==
    call.op \in {"draw_char", "draw_string", "draw_filled_rect"} =>
        /\ ~panicked
        /\ TargetOutside => img = old

\* C6: draw_string on a row inside the grid writes ink, paper and the k-th
\* character at (p.x+k, p.y) for exactly the k with 0 <= p.x+k < width and
\* leaves every other cell untouched; on a negative row it writes nothing.
C6_DrawStringWritesVisible ==
    call.op = "draw_string" =>
        /\ (0 <= call.p.y /\ call.p.y < old.height) =>
             \A x \in 0..(old.width - 1), y \in 0..(old.height - 1) :
                 CellAt(img, x, y) =
                     IF y = call.p.y /\ call.p.x <= x /\ x < call.p.x + Len(call.text)
                     THEN [fore |-> call.ch.ink, back |-> call.ch.paper,
                           glyph |-> call.text[x - call.p.x + 1]]
                     ELSE CellAt(old, x, y)
        /\ call.p.y < 0 => img = old

\* A string starting left of the grid and running past its right edge has
\* been drawn on a row of the grid.
C6_Witness ==
    /\ call.op = "draw_string" /\ ~panicked
    /\ 0 <= call.p.y /\ call.p.y < old.height
    /\ call.p.x < 0 /\ call.p.x + Len(call.text) > old.width
    /\ img # old

\* C7: draw_filled_rect with a rectangle overlapping the grid sets exactly the
\* cells of the intersection to (ink, paper, ch) and leaves the others unchanged.
C7_DrawFilledRectFillsIntersection ==
    (call.op = "draw_filled_rect" /\ ~TargetOutside) =>
        /\ ~panicked
        /\ \A x \in 0..(old.width - 1), y \in 0..(old.height - 1) :
             CellAt(img, x, y) =
                 IF InRect(call.rect, x, y)
                 THEN [fore |-> call.ch.ink, back |-> call.ch.paper, glyph |-> call.ch.ch]
                 ELSE CellAt(old, x, y)

\* A rectangle overhanging the left and the top edge has been drawn.
C7_Witness ==
    /\ call.op = "draw_filled_rect" /\ ~TargetOutside /\ ~panicked
    /\ call.rect.x < 0 /\ call.rect.y < 0
    /\ img # old

\* ---------------------------------------------------------------------------
\* Window-size policy (lib.rs, config.rs)
\* ---------------------------------------------------------------------------

MIN_WINDOW_SIZE == <<20, 20>>

\* Alignment to the nearest multiple instead of the one below.
align_down_to_nearest(value, alignment) ==
    ((value + alignment \div 2) \div alignment) * alignment

\* Alignment to the multiple strictly below the value.
align_down_strictly_below(value, alignment) ==
    IF value = 0 THEN 0 ELSE ((value - 1) \div alignment) * alignment

align_down(value, alignment) == (value \div alignment) * alignment

WindowSize(mode, a, b, scale) == [mode |-> mode, a |-> a, b |-> b, scale |-> scale]
FontData(char_width, char_height) == [char_width |-> char_width, char_height |-> char_height]

\* The policy with the cell-count mode snapping to the font cell, as the
\* pixel-sized mode does.
WindowSizePolicy_snap_to_cell(window_size, font_data) ==
    IF window_size.mode = "DynamicScaleWithCellSize"
    THEN [width  |-> window_size.a * font_data.char_width * window_size.scale,
          height |-> window_size.b * font_data.char_height * window_size.scale,
          scale  |-> window_size.scale,
          snap_size |-> <<0, 0>>,
          min_size  |-> <<window_size.a * font_data.char_width,
                          window_size.b * font_data.char_height>>]
    ELSE [width  |-> IF window_size.mode = "FixedCellWithPixelSize"
                     THEN align_down(window_size.a, font_data.char_width)
                     ELSE window_size.a * font_data.char_width,
          height |-> IF window_size.mode = "FixedCellWithPixelSize"
                     THEN align_down(window_size.b, font_data.char_height)
                     ELSE window_size.b * font_data.char_height,
          scale  |-> 1,
          snap_size |-> <<font_data.char_width, font_data.char_height>>,
          min_size  |-> <<MIN_WINDOW_SIZE[1] * font_data.char_width,
                          MIN_WINDOW_SIZE[2] * font_data.char_height>>]

\* The tuple (width, height, scale, snap_size, (min_width, min_height)) of run.
WindowSizePolicy(window_size, font_data) ==
    IF window_size.mode = "FixedCellWithPixelSize"
    THEN [width  |-> align_down(window_size.a, font_data.char_width),
          height |-> align_down(window_size.b, font_data.char_height),
          scale  |-> 1,
          snap_size |-> <<font_data.char_width, font_data.char_height>>,
          min_size  |-> <<MIN_WINDOW_SIZE[1] * font_data.char_width,
                          MIN_WINDOW_SIZE[2] * font_data.char_height>>]
    ELSE IF window_size.mode = "DynamicCellWithCellSize"
    THEN [width  |-> window_size.a * font_data.char_width,
          height |-> window_size.b * font_data.char_height,
          scale  |-> 1,
          snap_size |-> <<window_size.a * font_data.char_width,
                          window_size.b * font_data.char_height>>,
          min_size  |-> <<MIN_WINDOW_SIZE[1] * font_data.char_width,
                          MIN_WINDOW_SIZE[2] * font_data.char_height>>]
    ELSE [width  |-> window_size.a * font_data.char_width * window_size.scale,
          height |-> window_size.b * font_data.char_height * window_size.scale,
          scale  |-> window_size.scale,
          snap_size |-> <<0, 0>>,
          min_size  |-> <<window_size.a * font_data.char_width,
                          window_size.b * font_data.char_height>>]

\* with_resizable(snap_size.0 != 0 && snap_size.1 != 0)
Resizable(p) == p.snap_size[1] # 0 /\ p.snap_size[2] # 0

\* The window run builds from the tuple, with the state the host keeps for it:
\* the size to return to from fullscreen, the Resized events not yet
\* delivered and whether a redraw is due.
WindowBuilder(p) ==
    [inner_size     |-> <<p.width, p.height>>,
     min_inner_size |-> p.min_size,
     resizable      |-> Resizable(p),
     windowed_size  |-> <<p.width, p.height>>,
     fullscreen     |-> FALSE,
     pending        |-> <<>>,
     redraw         |-> FALSE]

\* RenderState::calculate_new_size is called by run but is not among the
\* sources; it is modelled from the specification: each dimension of the
\* proposed size is snapped down to the nearest multiple of the snap
\* granularity, and a granularity of 0 leaves the dimension alone.
calculate_new_size(snap_size, new_size) ==
    <<IF snap_size[1] = 0 THEN new_size[1] ELSE align_down(new_size[1], snap_size[1]),
      IF snap_size[2] = 0 THEN new_size[2] ELSE align_down(new_size[2], snap_size[2])>>

\* ---------------------------------------------------------------------------
\* GPU synchronization layer (render.rs)
\* ---------------------------------------------------------------------------

\* A texture: its size, its CPU-side storage and the GPU texture object
\* created with it.  The storage vec![v; len] is kept as its length and the
\* value v that fills it (0 when created, 1 once the present callback has
\* drawn on it); the GPU object is kept as the extent it was created with.
Texture_new(size) ==
    [size    |-> size,
     storage |-> [len |-> size[1] * size[2], fill |-> 0],
     texture |-> [width |-> size[1], height |-> size[2]]]

\* The bind group holds views of the GPU objects of the three plane textures.
create_texture_bind_group(fg_texture, bg_texture, chars_texture) ==
    [fg |-> fg_texture.texture, bg |-> bg_texture.texture, chars |-> chars_texture.texture]

RenderState_new(window_size, font) ==
    LET surface_size == <<window_size[1] \div font.char_width,
                          window_size[2] \div font.char_height>>
        fg_texture == Texture_new(surface_size)
        bg_texture == Texture_new(surface_size)
        chars_texture == Texture_new(surface_size)
    IN [surface_config     |-> window_size,
        font_char_size     |-> <<font.char_width, font.char_height>>,
        surface_char_size  |-> surface_size,
        fg_texture         |-> fg_texture,
        bg_texture         |-> bg_texture,
        chars_texture      |-> chars_texture,
        texture_bind_group |-> create_texture_bind_group(fg_texture, bg_texture, chars_texture)]

\* resize recreating the textures whenever it is called with a non-empty size.
resize_always_recreates(self, new_size) ==
    IF new_size[1] > 0 /\ new_size[2] > 0
    THEN LET chars_size == <<new_size[1] \div self.font_char_size[1],
                             new_size[2] \div self.font_char_size[2]>>
             fg_texture == Texture_new(chars_size)
             bg_texture == Texture_new(chars_size)
             chars_texture == Texture_new(chars_size)
         IN [self EXCEPT !.surface_config = new_size,
                         !.surface_char_size = chars_size,
                         !.fg_texture = fg_texture,
                         !.bg_texture = bg_texture,
                         !.chars_texture = chars_texture,
                         !.texture_bind_group =
                             create_texture_bind_group(fg_texture, bg_texture, chars_texture)]
    ELSE self

\* resize recreating the textures without recording the new grid dimensions.
resize_stale_char_size(self, new_size) ==
    IF new_size[1] > 0 /\ new_size[2] > 0
    THEN LET chars_size == <<new_size[1] \div self.font_char_size[1],
                             new_size[2] \div self.font_char_size[2]>>
             fg_texture == Texture_new(chars_size)
             bg_texture == Texture_new(chars_size)
             chars_texture == Texture_new(chars_size)
         IN IF chars_size # self.surface_char_size
            THEN [self EXCEPT !.surface_config = new_size,
                              !.fg_texture = fg_texture,
                              !.bg_texture = bg_texture,
                              !.chars_texture = chars_texture,
                              !.texture_bind_group =
                                  create_texture_bind_group(fg_texture, bg_texture, chars_texture)]
            ELSE [self EXCEPT !.surface_config = new_size]
    ELSE self

resize(self, new_size) ==
    IF new_size[1] > 0 /\ new_size[2] > 0
    THEN LET chars_size == <<new_size[1] \div self.font_char_size[1],
                             new_size[2] \div self.font_char_size[2]>>
             fg_texture == Texture_new(chars_size)
             bg_texture == Texture_new(chars_size)
             chars_texture == Texture_new(chars_size)
         IN IF chars_size # self.surface_char_size
            THEN [self EXCEPT !.surface_config = new_size,
                              !.surface_char_size = chars_size,
                              !.fg_texture = fg_texture,
                              !.bg_texture = bg_texture,
                              !.chars_texture = chars_texture,
                              !.texture_bind_group =
                                  create_texture_bind_group(fg_texture, bg_texture, chars_texture)]
            ELSE [self EXCEPT !.surface_config = new_size]
    ELSE self

\* The GPU work of render, in the order it is queued: the three plane uploads,
\* then, when the swapchain image has been acquired, the draw, the submission
\* and the presentation of the frame.  acquire is what get_current_texture
\* returns: "Ok" or the SurfaceError.
render(self, acquire) ==
    [result |-> acquire,
     gpu    |-> <<"update_fg", "update_bg", "update_chars">>
                \o (IF acquire = "Ok" THEN <<"draw", "submit", "present">> ELSE <<>>)]

size_in_chars(self) == self.surface_char_size

\* ---------------------------------------------------------------------------
\* Event loop (lib.rs)
\* ---------------------------------------------------------------------------

ShiftState(shift, ctrl, alt) == [shift |-> shift, ctrl |-> ctrl, alt |-> alt]
ShiftState_new == ShiftState(FALSE, FALSE, FALSE)
alt_only(self) == ~self.shift /\ ~self.ctrl /\ self.alt

NoSize == <<>>
\* What the handler of an event did: the size the event carried, the branch
\* taken (outcome), the size asked of the host (request), the size handed to
\* RenderState::resize (resized), the results of the present callback and of
\* render, the result of the update callback (tick), whether the update
\* callback had been called since the previous call of the present callback
\* (ticked), the number of calls of render (renders), the GPU work queued
\* (gpu), the planes as they were when resize was called (before), whether
\* ev_loop.exit() had been called before the event arrived (after_exit), and
\* whether a Resized event carries the size the handler last asked the host
\* for (answers).
Ev(kind, size, outcome, request, resized, present_result, render_result) ==
    [kind |-> kind, size |-> size, outcome |-> outcome, request |-> request,
     resized |-> resized, present |-> present_result, render |-> render_result,
     tick |-> "none", ticked |-> FALSE, renders |-> 0, gpu |-> <<>>, before |-> <<>>,
     after_exit |-> FALSE, answers |-> FALSE]
NoEv == Ev("none", NoSize, "none", NoSize, NoSize, "none", "none")
HostEv == Ev("host", NoSize, "none", NoSize, NoSize, "none", "none")

\* The part of the render state that holds the live planes.
Planes(rs) ==
    [surface_char_size  |-> rs.surface_char_size,
     fg_texture         |-> rs.fg_texture,
     bg_texture         |-> rs.bg_texture,
     chars_texture      |-> rs.chars_texture,
     texture_bind_group |-> rs.texture_bind_group]

\* The Resized arm accepting every size without snapping.
OnResized_accepts_unsnapped(rs, can_start, snap_size, new_size) ==
    IF can_start
    THEN [render_state |-> resize(rs, new_size), can_start_resizing |-> can_start,
          outcome |-> "resize", request |-> NoSize, resized |-> new_size]
    ELSE [render_state |-> rs, can_start_resizing |-> TRUE, outcome |-> "ignored",
          request |-> NoSize, resized |-> NoSize]

\* The Resized arm without the latch: the first event is processed too.
OnResized_without_latch(rs, can_start, snap_size, new_size) ==
    LET actual_new_size == calculate_new_size(snap_size, new_size)
    IN IF actual_new_size[1] # new_size[1] \/ actual_new_size[2] # new_size[2]
       THEN [render_state |-> rs, can_start_resizing |-> TRUE, outcome |-> "snap",
             request |-> actual_new_size, resized |-> NoSize]
       ELSE [render_state |-> resize(rs, new_size), can_start_resizing |-> TRUE,
             outcome |-> "resize", request |-> NoSize, resized |-> new_size]

\* The WindowEvent::Resized arm: what it does to the render state and to the
\* ignore-first-resize latch, the size it asks the host for (request) and the
\* size it hands to RenderState::resize (resized).
OnResized(rs, can_start, snap_size, new_size) ==
    IF can_start
    THEN LET actual_new_size == calculate_new_size(snap_size, new_size)
         IN IF actual_new_size[1] # new_size[1] \/ actual_new_size[2] # new_size[2]
            THEN [render_state |-> rs, can_start_resizing |-> can_start, outcome |-> "snap",
                  request |-> actual_new_size, resized |-> NoSize]
            ELSE [render_state |-> resize(rs, new_size), can_start_resizing |-> can_start,
                  outcome |-> "resize", request |-> NoSize, resized |-> new_size]
    ELSE [render_state |-> rs, can_start_resizing |-> TRUE, outcome |-> "ignored",
          request |-> NoSize, resized |-> NoSize]

\* The Enter arm toggling fullscreen without re-arming the latch.
OnEnter_keeps_latch(shift, can_start) ==
    [toggle |-> alt_only(shift), can_start_resizing |-> can_start]

\* The KeyboardInput arm for Enter pressed, guarded by alt_only: whether the
\* window toggles fullscreen, and the latch afterwards.
OnEnter(shift, can_start) ==
    IF alt_only(shift)
    THEN [toggle |-> TRUE, can_start_resizing |-> FALSE]
    ELSE [toggle |-> FALSE, can_start_resizing |-> can_start]

\* The present callback draws on the live planes (Changed) or does not.
Drawn(t) == [t EXCEPT !.storage.fill = 1]

\* present: the app is handed the live planes and reports what it did.
present(rs, result) ==
    IF result = "Changed"
    THEN [rs EXCEPT !.fg_texture = Drawn(@), !.bg_texture = Drawn(@), !.chars_texture = Drawn(@)]
    ELSE rs

\* The RedrawRequested arm rendering whatever the present callback reports.
OnRedrawRequested_always_renders(rs, present_result, acquire, inner_size) ==
    LET rs1 == present(rs, present_result)
        r == render(rs1, acquire)
    IN [render_state |-> IF r.result = "Lost" THEN resize(rs1, inner_size) ELSE rs1,
        exit    |-> r.result = "OutOfMemory",
        renders |-> 1,
        render  |-> r.result,
        gpu     |-> r.gpu,
        resized |-> IF r.result = "Lost" THEN inner_size ELSE NoSize,
        before  |-> IF r.result = "Lost" THEN Planes(rs1) ELSE <<>>]

\* The WindowEvent::RedrawRequested arm: present, then render when present
\* reports Changed, then the match on render's result.  renders counts the
\* calls of render, gpu is the GPU work they queued.
OnRedrawRequested(rs, present_result, acquire, inner_size) ==
    LET rs1 == present(rs, present_result)
    IN IF present_result = "Changed"
       THEN LET r == render(rs1, acquire)
            IN [render_state |-> IF r.result = "Lost" THEN resize(rs1, inner_size) ELSE rs1,
                exit    |-> r.result = "OutOfMemory",
                renders |-> 1,
                render  |-> r.result,
                gpu     |-> r.gpu,
                resized |-> IF r.result = "Lost" THEN inner_size ELSE NoSize,
                before  |-> IF r.result = "Lost" THEN Planes(rs1) ELSE <<>>]
       ELSE [render_state |-> rs1, exit |-> FALSE, renders |-> 0, render |-> "none",
             gpu |-> <<>>, resized |-> NoSize, before |-> <<>>]

\* The configurations run is started with: a window-size mode and a font.
Configs ==
    {[window_size |-> WindowSize("FixedCellWithPixelSize", 323, 241, 1), font |-> FontData(8, 8)],
     [window_size |-> WindowSize("DynamicCellWithCellSize", 40, 30, 1),  font |-> FontData(8, 8)],
     [window_size |-> WindowSize("DynamicScaleWithCellSize", 40, 30, 2), font |-> FontData(4, 6)]}
\* The sizes the user drags the window to, the size of a minimised window and
\* the size of the monitor.
UserSizes == {<<320, 240>>, <<325, 240>>, <<320, 245>>, <<640, 480>>, <<0, 0>>}
MonitorSize == <<1366, 768>>
\* The modifier states met: nothing held, alt alone, alt with shift.
Modifiers == {ShiftState(FALSE, FALSE, FALSE), ShiftState(FALSE, FALSE, TRUE),
              ShiftState(TRUE, FALSE, TRUE)}
RenderResults == {"Ok", "Lost", "Outdated", "OutOfMemory", "Timeout"}

\* The drawing calls are not examined while the event loop runs.
DrawIdle ==
    /\ img = <<>>
    /\ old = <<>>
    /\ call = NoCall
    /\ panicked = FALSE
    /\ overflow_checks = FALSE
    /\ nops = 0
    /\ arg = <<>>
    /\ ret = <<>>

\* What has happened since the window was created: the number of Resized
\* events handled (counted up to 2), the number handled since the window was
\* created or last toggled between windowed and fullscreen (counted up to 2),
\* whether the update callback has been called since the last call of the
\* present callback, the surface size and the grid as they were at a toggle
\* after which fewer than two Resized events have been handled, with whether
\* another handler has called RenderState::resize since (frozen), and
\* whether the Resized event not yet delivered answers a request_inner_size
\* of the handler (rerequest).
Hist(resizes, since_toggle, ticked) ==
    [resizes |-> resizes, since_toggle |-> since_toggle, ticked |-> ticked,
     frozen |-> <<>>, rerequest |-> FALSE]
\* A handler other than that of Resized has called RenderState::resize.
Touched(h) == IF h.frozen = <<>> THEN h ELSE [h EXCEPT !.frozen.resized = TRUE]
UpTo2(n) == IF n < 2 THEN n + 1 ELSE 2

\* The window is created with the size the policy computed; the host may
\* announce it with a first Resized event.
InitLoop ==
    /\ DrawIdle
    /\ config \in Configs
    /\ policy = WindowSizePolicy(config.window_size, config.font)
    /\ \E pending \in {<<>>, <<(<<policy.width, policy.height>>)>>} :
         window = [WindowBuilder(policy) EXCEPT !.pending = pending]
    /\ render_state = RenderState_new(window.inner_size, config.font)
    /\ can_start_resizing = FALSE
    /\ shift_state = ShiftState_new
    /\ exited = FALSE
    /\ stopped = FALSE
    /\ hist = Hist(0, 0, FALSE)
    /\ ev = NoEv

\* The host calls the closure of event_loop.run until it stops the loop.
Running == ~stopped

\* The user resizes (or minimises) a resizable window; the host will deliver
\* a Resized event for it.
UserResize ==
    /\ Running
    /\ Resizable(policy) /\ ~window.fullscreen /\ window.pending = <<>>
    /\ \E size \in UserSizes :
         /\ size # window.inner_size
         /\ window' = [window EXCEPT !.inner_size = size, !.pending = <<size>>]
    /\ ev' = HostEv
    /\ UNCHANGED <<config, policy, render_state, can_start_resizing, shift_state, exited,
                   stopped, hist>>
    /\ UNCHANGED drawVars

\* The host finds the contents of the window invalid (the window has been
\* shown, uncovered or resized) and will deliver a RedrawRequested event.
Exposed ==
    /\ Running
    /\ ~window.redraw
    /\ window' = [window EXCEPT !.redraw = TRUE]
    /\ ev' = HostEv
    /\ UNCHANGED <<config, policy, render_state, can_start_resizing, shift_state, exited,
                   stopped, hist>>
    /\ UNCHANGED drawVars

\* After ev_loop.exit() the host stops the loop: it calls the closure no more.
LoopExiting ==
    /\ Running
    /\ exited
    /\ stopped' = TRUE
    /\ ev' = HostEv
    /\ UNCHANGED <<config, policy, window, render_state, can_start_resizing, shift_state,
                   exited, hist>>
    /\ UNCHANGED drawVars

\* WindowEvent::Resized(new_size).  A request_inner_size made by the handler is
\* applied by the host, which then delivers a Resized event for it; a
\* fullscreen window keeps its size.
Resized ==
    /\ Running
    /\ window.pending # <<>>
    /\ LET new_size == Head(window.pending)
           r == OnResized(render_state, can_start_resizing, policy.snap_size, new_size)
       IN /\ render_state' = r.render_state
          /\ can_start_resizing' = r.can_start_resizing
          /\ window' = IF r.request # NoSize /\ ~window.fullscreen
                       THEN [window EXCEPT !.inner_size = r.request,
                                           !.pending = Append(Tail(window.pending), r.request)]
                       ELSE [window EXCEPT !.pending = Tail(window.pending)]
          /\ ev' = [Ev("Resized", new_size, r.outcome, r.request, r.resized, "none", "none")
                       EXCEPT !.before = IF r.resized # NoSize THEN Planes(render_state) ELSE <<>>,
                              !.after_exit = exited,
                              !.answers = hist.rerequest]
          /\ hist' = [hist EXCEPT !.resizes = UpTo2(@), !.since_toggle = UpTo2(@),
                                  !.frozen = IF hist.since_toggle = 0 THEN @ ELSE <<>>,
                                  !.rerequest = (r.request # NoSize /\ ~window.fullscreen)]
    /\ UNCHANGED <<config, policy, shift_state, exited, stopped>>
    /\ UNCHANGED drawVars

\* WindowEvent::ScaleFactorChanged
ScaleFactorChanged ==
    /\ Running
    /\ render_state' = resize(render_state, window.inner_size)
    /\ ev' = [Ev("ScaleFactorChanged", NoSize, "resize", NoSize, window.inner_size,
                 "none", "none")
                 EXCEPT !.before = Planes(render_state), !.after_exit = exited]
    /\ hist' = Touched(hist)
    /\ UNCHANGED <<config, policy, window, can_start_resizing, shift_state, exited,
                   stopped>>
    /\ UNCHANGED drawVars

\* WindowEvent::ModifiersChanged
ModifiersChanged ==
    /\ Running
    /\ \E m \in Modifiers : m # shift_state /\ shift_state' = m
    /\ ev' = [Ev("ModifiersChanged", NoSize, "none", NoSize, NoSize, "none", "none")
                 EXCEPT !.after_exit = exited]
    /\ UNCHANGED <<config, policy, window, render_state, can_start_resizing, exited,
                   stopped, hist>>
    /\ UNCHANGED drawVars

\* WindowEvent::CloseRequested, and KeyboardInput with Escape pressed.
CloseOrEscape ==
    /\ Running
    /\ exited' = TRUE
    /\ \E kind \in {"CloseRequested", "Escape"} :
         ev' = [Ev(kind, NoSize, "exit", NoSize, NoSize, "none", "none")
                   EXCEPT !.after_exit = exited]
    /\ UNCHANGED <<config, policy, window, render_state, can_start_resizing, shift_state,
                   stopped, hist>>
    /\ UNCHANGED drawVars

\* KeyboardInput with Enter pressed: with alt alone held the window toggles
\* fullscreen, and the host resizes it to the monitor or back and will deliver
\* a Resized event; otherwise the key is not handled.  The key is pressed
\* when the host has delivered the Resized events of earlier changes.
EnterPressed ==
    /\ Running
    /\ window.pending = <<>>
    /\ IF OnEnter(shift_state, can_start_resizing).toggle
       THEN LET size == IF window.fullscreen THEN window.windowed_size ELSE MonitorSize
            IN /\ can_start_resizing' = OnEnter(shift_state, can_start_resizing).can_start_resizing
               /\ window' = [window EXCEPT
                               !.fullscreen = ~window.fullscreen,
                               !.windowed_size = IF window.fullscreen THEN @ ELSE window.inner_size,
                               !.inner_size = size,
                               !.pending = Append(@, size)]
               /\ hist' = [hist EXCEPT
                             !.since_toggle = 0,
                             !.frozen = [surface_config |-> render_state.surface_config,
                                         surface_char_size |-> size_in_chars(render_state),
                                         resized |-> FALSE]]
               /\ ev' = [Ev("Enter", NoSize, "toggle", NoSize, NoSize, "none", "none")
                            EXCEPT !.after_exit = exited]
       ELSE /\ UNCHANGED <<can_start_resizing, window, hist>>
            /\ ev' = [Ev("Enter", NoSize, "none", NoSize, NoSize, "none", "none")
                         EXCEPT !.after_exit = exited]
    /\ UNCHANGED <<config, policy, render_state, shift_state, exited, stopped>>
    /\ UNCHANGED drawVars

\* WindowEvent::RedrawRequested: present, then render when it reports Changed.
RedrawRequested ==
    /\ Running
    /\ window.redraw
    /\ window' = [window EXCEPT !.redraw = FALSE]
    /\ \E present_result \in {"Changed", "NoChanges"}, acquire \in RenderResults :
         LET r == OnRedrawRequested(render_state, present_result, acquire, window.inner_size)
         IN \* without a call of render nothing is acquired
            /\ (present_result = "NoChanges" => acquire = "Ok")
            /\ render_state' = r.render_state
            /\ exited' = (exited \/ r.exit)
            /\ ev' = [Ev("RedrawRequested", NoSize,
                         IF r.resized # NoSize THEN "resize" ELSE "none", NoSize,
                         r.resized, present_result, r.render)
                         EXCEPT !.ticked = hist.ticked, !.renders = r.renders, !.gpu = r.gpu,
                                !.before = r.before, !.after_exit = exited]
            /\ hist' = [(IF r.resized # NoSize THEN Touched(hist) ELSE hist)
                           EXCEPT !.ticked = FALSE]
    /\ UNCHANGED <<config, policy, can_start_resizing, shift_state, stopped>>
    /\ UNCHANGED drawVars

\* Event::AboutToWait: tick, then request_redraw.
AboutToWait ==
    /\ Running
    /\ \E result \in {"Continue", "Quit"} :
         /\ exited' = (exited \/ result = "Quit")
         /\ ev' = [Ev("AboutToWait", NoSize, result, NoSize, NoSize, "none", "none")
                      EXCEPT !.tick = result, !.after_exit = exited]
    /\ window' = [window EXCEPT !.redraw = TRUE]
    /\ hist' = [hist EXCEPT !.ticked = TRUE]
    /\ UNCHANGED <<config, policy, render_state, can_start_resizing, shift_state, stopped>>
    /\ UNCHANGED drawVars

NextLoop ==
    \/ UserResize
    \/ Exposed
    \/ LoopExiting
    \/ Resized
    \/ ScaleFactorChanged
    \/ ModifiersChanged
    \/ CloseOrEscape
    \/ EnterPressed
    \/ RedrawRequested
    \/ AboutToWait

SpecLoop == InitLoop /\ [][NextLoop]_vars

\* ---------------------------------------------------------------------------
\* Properties of the resize handling
\* ---------------------------------------------------------------------------

\* A Resized event has been processed (not ignored) in a resizable mode.
ResizeProcessed ==
    /\ ev.kind = "Resized"
    /\ ev.outcome # "ignored"
    /\ Resizable(policy)

\* size snapped down to a multiple of the snap granularity.
Snapped(size) ==
    <<size[1] - (size[1] % policy.snap_size[1]), size[2] - (size[2] % policy.snap_size[2])>>

\* C8: a processed resize whose size differs from its snapped size makes the
\* engine request the snapped size from the host and does not resize the GPU
\* layer; a processed resize whose size equals its snapped size resizes the
\* GPU layer to it.
C8_ResizeSnapsOrAccepts ==
    ResizeProcessed =>
        IF Snapped(ev.size) # ev.size
        THEN /\ ev.request = Snapped(ev.size)
             /\ ev.resized = NoSize
        ELSE /\ ev.request = NoSize
             /\ ev.resized = ev.size
             /\ (ev.size[1] > 0 /\ ev.size[2] > 0) => render_state.surface_config = ev.size

\* 325x240 with granularity (8,8) has been proposed and 320x240 re-requested.
C8_Witness ==
    /\ ResizeProcessed
    /\ policy.snap_size = <<8, 8>>
    /\ ev.size = <<325, 240>>
    /\ ev.request = <<320, 240>>

\* C9: in every state of the event loop the configured surface size is a
\* whole number of font cells in each dimension: the grid dimensions times the
\* cell size give the surface size.
C9_SurfaceIsWholeCells ==
    /\ render_state.surface_config[1] % render_state.font_char_size[1] = 0
    /\ render_state.surface_config[2] % render_state.font_char_size[2] = 0
    /\ render_state.surface_char_size[1] * render_state.font_char_size[1]
         = render_state.surface_config[1]
    /\ render_state.surface_char_size[2] * render_state.font_char_size[2]
         = render_state.surface_config[2]

\* C10: in the fixed-cell cell-count mode the grid dimensions reported to the
\* app after an accepted resize are the configured cell counts.
C10_CellCountFixed ==
    (/\ config.window_size.mode = "DynamicCellWithCellSize"
     /\ ev.kind = "Resized"
     /\ ev.outcome = "resize") =>
        size_in_chars(render_state) = <<config.window_size.a, config.window_size.b>>

\* ---------------------------------------------------------------------------
\* Properties of RenderState::resize
\* ---------------------------------------------------------------------------

\* The handler of the last event has called RenderState::resize.
ResizeCalled == ev.kind # "none" /\ ev.resized # NoSize

\* new pixel size / font cell size
GridOf(size) ==
    <<size[1] \div render_state.font_char_size[1], size[2] \div render_state.font_char_size[2]>>

\* A plane of the given grid dimensions as it is when just created: zeroed.
FreshPlane(grid) ==
    [size    |-> grid,
     storage |-> [len |-> grid[1] * grid[2], fill |-> 0],
     texture |-> [width |-> grid[1], height |-> grid[2]]]

\* The live planes are new planes of the given grid dimensions and the bind
\* group refers to their textures.
Recreated(grid) ==
    /\ render_state.surface_char_size = grid
    /\ render_state.fg_texture = FreshPlane(grid)
    /\ render_state.bg_texture = FreshPlane(grid)
    /\ render_state.chars_texture = FreshPlane(grid)
    /\ render_state.texture_bind_group =
           [fg |-> render_state.fg_texture.texture, bg |-> render_state.bg_texture.texture,
            chars |-> render_state.chars_texture.texture]

\* The live planes, their textures and the bind group are as they were.
PlanesKept == Planes(render_state) = ev.before

\* C11 as stated: resize(new_pixel_size) recreates the three live planes
\* (zeroed) and rebuilds the bind group if and only if new_pixel_size / font
\* cell size differs from the current grid dimensions; otherwise the planes and
\* their textures are left as they were and the surface is configured to the
\* new pixel size.
C11_ResizeRecreatesIffGridChanges ==
    ResizeCalled =>
        IF GridOf(ev.resized) # ev.before.surface_char_size
        THEN Recreated(GridOf(ev.resized)) /\ render_state.surface_config = ev.resized
        ELSE PlanesKept /\ render_state.surface_config = ev.resized

\* C11 amended: for a new pixel size with both dimensions positive, resize
\* recreates the three live planes (zeroed) and rebuilds the bind group if and
\* only if new_pixel_size / font cell size differs from the current grid
\* dimensions, and otherwise leaves the planes and their textures as they were;
\* in both cases the surface is configured to the new pixel size.  A size with
\* a zero dimension leaves the planes as they were.
C11_ResizeOfNonEmptySize ==
    ResizeCalled =>
        IF ev.resized[1] > 0 /\ ev.resized[2] > 0
        THEN /\ render_state.surface_config = ev.resized
             /\ IF GridOf(ev.resized) # ev.before.surface_char_size
                THEN Recreated(GridOf(ev.resized))
                ELSE PlanesKept
        ELSE PlanesKept

\* The surface has been resized to a pixel size that gives the same grid
\* dimensions, and the planes still hold what the app drew.
C11_Witness ==
    /\ ResizeCalled
    /\ ev.resized[1] > 0 /\ ev.resized[2] > 0
    /\ ev.resized[1] % render_state.font_char_size[1] # 0
    /\ GridOf(ev.resized) = ev.before.surface_char_size
    /\ render_state.fg_texture.storage.fill = 1
    /\ render_state.surface_config = ev.resized

\* ---------------------------------------------------------------------------
\* Properties of the event handlers
\* ---------------------------------------------------------------------------

\* The Resized event just handled was ignored: no resize, no re-request.
ResizeIgnored == ev.outcome = "ignored" /\ ev.resized = NoSize /\ ev.request = NoSize
\* The Resized event just handled went through the snapping policy.
ResizeSnappedOrAccepted ==
    \/ ev.outcome = "snap" /\ ev.request # NoSize /\ ev.resized = NoSize
    \/ ev.outcome = "resize" /\ ev.request = NoSize /\ ev.resized = ev.size

\* C12 as stated: the first Resized event after window creation causes neither
\* a resize of the GPU layer nor a snap re-request; every later Resized event
\* is processed by the snapping policy.
C12_OnlyFirstResizeIgnored ==
    ev.kind = "Resized" =>
        IF hist.resizes = 1 THEN ResizeIgnored ELSE ResizeSnappedOrAccepted

\* C12 amended: the first Resized event after window creation, and the first
\* after each fullscreen toggle, causes neither a resize of the GPU layer nor a
\* snap re-request; every other Resized event is processed by the snapping
\* policy.
C12_FirstResizeSinceCreationOrToggleIgnored ==
    ev.kind = "Resized" =>
        IF hist.since_toggle = 1 THEN ResizeIgnored ELSE ResizeSnappedOrAccepted

\* A Resized event that was not the first since creation has been ignored
\* because the window had been toggled to fullscreen.
C12_Witness ==
    /\ ev.kind = "Resized"
    /\ hist.resizes = 2 /\ hist.since_toggle = 1
    /\ window.fullscreen
    /\ ResizeIgnored

\* The plane uploads among the GPU work of the last event.
Uploads == SelectSeq(ev.gpu, LAMBDA op : op \in {"update_fg", "update_bg", "update_chars"})
Draws == SelectSeq(ev.gpu, LAMBDA op : op = "draw")

\* C13: a frame whose present callback returns NoChanges issues no plane
\* upload and no draw call; a frame whose present callback returns Changed
\* calls render exactly once (each plane uploaded once, at most one draw).
C13_RenderOnlyWhenChanged ==
    ev.kind = "RedrawRequested" =>
        IF ev.present = "NoChanges"
        THEN ev.renders = 0 /\ ev.gpu = <<>>
        ELSE /\ ev.present = "Changed"
             /\ ev.renders = 1
             /\ Uploads = <<"update_fg", "update_bg", "update_chars">>
             /\ Len(Draws) = IF ev.render = "Ok" THEN 1 ELSE 0

\* A frame in which the app reported no change has passed after the planes
\* had been drawn on.
C13_Witness ==
    /\ ev.kind = "RedrawRequested"
    /\ ev.present = "NoChanges"
    /\ render_state.fg_texture.storage.fill = 1

\* C14: every call of the present callback is preceded by a call of the
\* update callback made since the previous call of the present callback, and
\* in a render the three plane uploads come before the draw call.
C14_TickBeforePresentUploadBeforeDraw ==
    ev.kind = "RedrawRequested" =>
        /\ ev.ticked
        /\ \A i, j \in 1..Len(ev.gpu) :
             (ev.gpu[i] = "draw" /\ ev.gpu[j] \in {"update_fg", "update_bg", "update_chars"})
                 => j < i

\* A frame of the running loop in which render was called.
RenderFailed(errors) ==
    /\ ev.kind = "RedrawRequested" /\ ~ev.after_exit
    /\ ev.present = "Changed"
    /\ ev.render \in errors

\* C15: when the acquisition of the swapchain image fails, an outdated or lost
\* surface is reconfigured against the current window size and the loop goes
\* on; memory exhaustion makes the loop exit; any other error skips the frame
\* and the loop goes on.
C15_AcquisitionErrors ==
    /\ RenderFailed({"Lost", "Outdated"}) =>
           /\ ev.resized = window.inner_size
           /\ (window.inner_size[1] > 0 /\ window.inner_size[2] > 0)
                  => render_state.surface_config = window.inner_size
           /\ ~exited
    /\ RenderFailed({"OutOfMemory"}) => exited
    /\ RenderFailed({"Timeout"}) => ev.resized = NoSize /\ Draws = <<>> /\ ~exited

\* C16: once ev_loop.exit() has been called, no update, present or render call
\* is made.
C16_NoCallbackAfterExit ==
    ev.after_exit => ev.tick = "none" /\ ev.present = "none" /\ ev.renders = 0


\* ---------------------------------------------------------------------------
\* The window-size policy on its own
\* ---------------------------------------------------------------------------

\* The fonts and the window sizes run is configured with: pixel sizes at and
\* above 0x0 and 320x240, cell counts, and scales from 1.
PolicyFonts == {FontData(8, 8), FontData(4, 6), FontData(8, 16)}
PixelWidths == {b + d : b \in {0, 320}, d \in 0..MaxExtra}
PixelHeights == {b + d : b \in {0, 240}, d \in 0..MaxExtra}
CellCounts == {<<1, 1>>, <<40, 30>>, <<80, 25>>}
PolicyWindowSizes ==
    {WindowSize("FixedCellWithPixelSize", w, h, 1) : w \in PixelWidths, h \in PixelHeights}
    \cup {WindowSize("DynamicCellWithCellSize", c[1], c[2], 1) : c \in CellCounts}
    \cup {WindowSize("DynamicScaleWithCellSize", c[1], c[2], scale) :
              c \in CellCounts, scale \in 1..MaxScale}

\* run has its configuration and has computed nothing yet.
InitPolicy ==
    /\ DrawIdle
    /\ \E window_size \in PolicyWindowSizes, font \in PolicyFonts :
         config = [window_size |-> window_size, font |-> font]
    /\ policy = <<>>
    /\ window = <<>>
    /\ render_state = <<>>
    /\ can_start_resizing = FALSE
    /\ shift_state = <<>>
    /\ exited = FALSE
    /\ stopped = FALSE
    /\ hist = <<>>
    /\ ev = <<>>

\* The match on config.window_size.
ComputePolicy ==
    /\ policy = <<>>
    /\ policy' = WindowSizePolicy(config.window_size, config.font)
    /\ UNCHANGED <<config, window, render_state, can_start_resizing, shift_state, exited,
                   stopped, hist, ev>>
    /\ UNCHANGED drawVars

\* WindowBuilder::new() ... build
BuildWindow ==
    /\ policy # <<>> /\ window = <<>>
    /\ window' = WindowBuilder(policy)
    /\ UNCHANGED <<config, policy, render_state, can_start_resizing, shift_state, exited,
                   stopped, hist, ev>>
    /\ UNCHANGED drawVars

NextPolicy == ComputePolicy \/ BuildWindow

SpecPolicy == InitPolicy /\ [][NextPolicy]_vars

\* The window has been built in the given mode.
Built(mode) == config.window_size.mode = mode /\ policy # <<>> /\ window # <<>>

\* C17: in the fixed-window integer-scale mode with cells (cw, ch), font cell
\* (fw, fh) and scale s the policy yields pixel size (cw*fw*s, ch*fh*s), scale
\* s, snap granularity (0,0), a window that is not resizable, and a minimum
\* pixel size equal to the pixel size.
C17_ScaleModePolicy ==
    Built("DynamicScaleWithCellSize") =>
        LET w == config.window_size.a * config.font.char_width * config.window_size.scale
            h == config.window_size.b * config.font.char_height * config.window_size.scale
        IN /\ window.inner_size = <<w, h>>
           /\ policy.scale = config.window_size.scale
           /\ policy.snap_size = <<0, 0>>
           /\ ~window.resizable
           /\ window.min_inner_size = <<w, h>>

\* C18: in the fixed-cell pixel-sized mode with requested pixel size (w, h)
\* and font cell (fw, fh) the policy yields pixel size (w - w mod fw,
\* h - h mod fh), scale 1, snap granularity (fw, fh) and minimum pixel size
\* (20*fw, 20*fh); 323x241 with an 8x8 cell yields 320x240.
C18_PixelModePolicy ==
    Built("FixedCellWithPixelSize") =>
        LET w == config.window_size.a
            h == config.window_size.b
            fw == config.font.char_width
            fh == config.font.char_height
        IN /\ window.inner_size = <<w - (w % fw), h - (h % fh)>>
           /\ policy.scale = 1
           /\ policy.snap_size = <<fw, fh>>
           /\ window.min_inner_size = <<20 * fw, 20 * fh>>
           /\ (w = 323 /\ h = 241 /\ fw = 8 /\ fh = 8) => window.inner_size = <<320, 240>>

\* 323x241 has been requested with the 8x8 font.
C18_Witness ==
    /\ Built("FixedCellWithPixelSize")
    /\ config.window_size.a = 323 /\ config.window_size.b = 241
    /\ config.font = FontData(8, 8)
    /\ window.inner_size = <<320, 240>>
    /\ policy.snap_size = <<8, 8>>

\* C19: in the fixed-cell cell-count mode with cells (cw, ch) and font cell
\* (fw, fh) the policy yields pixel size (cw*fw, ch*fh), scale 1, snap
\* granularity equal to that pixel size, and minimum pixel size (20*fw, 20*fh).
C19_CellModePolicy ==
    Built("DynamicCellWithCellSize") =>
        LET w == config.window_size.a * config.font.char_width
            h == config.window_size.b * config.font.char_height
        IN /\ window.inner_size = <<w, h>>
           /\ policy.scale = 1
           /\ policy.snap_size = <<w, h>>
           /\ window.min_inner_size = <<20 * config.font.char_width, 20 * config.font.char_height>>

\* 40x30 cells have been requested with the 4x6 font.
C19_Witness ==
    /\ Built("DynamicCellWithCellSize")
    /\ config.window_size.a = 40 /\ config.window_size.b = 30
    /\ config.font = FontData(4, 6)
    /\ window.inner_size = <<160, 180>>
    /\ window.resizable


\* ---------------------------------------------------------------------------
\* Rectangle clipping on its own
\* ---------------------------------------------------------------------------

\* The bounds clipped within and the rectangles clipped: origins around the
\* top-left and the bottom-right corner of the bounds, empty, small and large
\* extents.
ClipBounds == {<<20, 20>>, <<4, 3>>}
ClipOrigins(bound) == ((0 - ClipMargin)..ClipMargin) \cup ((bound - 2)..(bound + 1))
ClipExtents == {0, 1, 2, 3, 10}
ClipArgs ==
    UNION {{[rect |-> Rect(x, y, w, h), width |-> b[1], height |-> b[2]] :
                x \in ClipOrigins(b[1]), y \in ClipOrigins(b[2]),
                w \in ClipExtents, h \in ClipExtents} : b \in ClipBounds}

\* The event loop is not running while functions are applied on their own.
InitClip ==
    /\ img = <<>>
    /\ old = <<>>
    /\ call = NoCall
    /\ panicked = FALSE
    /\ overflow_checks = FALSE
    /\ nops = 0
    /\ arg \in ClipArgs
    /\ ret = <<>>
    /\ LoopIdle

\* rect.clip_within(width, height)
ClipWithin ==
    /\ ret = <<>>
    /\ ret' = clip_within(arg.rect, arg.width, arg.height)
    /\ UNCHANGED <<img, old, call, panicked, overflow_checks, nops, arg>>
    /\ UNCHANGED loopVars

NextClip == ClipWithin

SpecClip == InitClip /\ [][NextClip]_vars

\* clip_within has been applied.
Clipped == arg # <<>> /\ ret # <<>>
\* The cell (x, y) lies within the bounds.
InBounds(x, y) == 0 <= x /\ x < arg.width /\ 0 <= y /\ y < arg.height
\* The cells a rectangle of the inputs can cover.
ClipCellXs == (0 - ClipMargin)..(20 + 11)
\* The rectangle and the bounds share a cell.
OverlapsBounds ==
    \E x \in ClipCellXs, y \in ClipCellXs : InRect(arg.rect, x, y) /\ InBounds(x, y)
\* The rectangle lies entirely inside the bounds.
InsideBounds ==
    /\ 0 <= arg.rect.x /\ arg.rect.x + arg.rect.width <= arg.width
    /\ 0 <= arg.rect.y /\ arg.rect.y + arg.rect.height <= arg.height

\* C20: for a rectangle that overlaps the bounds (0,0,bound_w,bound_h),
\* clip_within returns the intersection of the rectangle with the bounds (the
\* rectangle of the cells that lie in both) and the offset (-min(x,0),
\* -min(y,0)); a rectangle entirely inside the bounds is returned unchanged
\* with offset (0,0); Rect(-2,-3,10,10) within 20x20 gives Rect(0,0,8,7) and
\* offset (2,3).
C20_ClipWithinIntersects ==
    Clipped =>
        /\ OverlapsBounds =>
               /\ \A x \in ClipCellXs, y \in ClipCellXs :
                      InRect(ret.rect, x, y) <=> (InRect(arg.rect, x, y) /\ InBounds(x, y))
               /\ ret.rect.width > 0 /\ ret.rect.height > 0
               /\ ret.offset.x = (IF arg.rect.x < 0 THEN 0 - arg.rect.x ELSE 0)
               /\ ret.offset.y = (IF arg.rect.y < 0 THEN 0 - arg.rect.y ELSE 0)
        /\ InsideBounds => ret.rect = arg.rect /\ ret.offset = Point(0, 0)
        /\ (arg.rect = Rect(0 - 2, 0 - 3, 10, 10) /\ arg.width = 20 /\ arg.height = 20)
               => ret.rect = Rect(0, 0, 8, 7) /\ ret.offset = Point(2, 3)

\* Rect(-2,-3,10,10) has been clipped within 20x20.
C20_Witness ==
    /\ Clipped
    /\ arg.rect = Rect(0 - 2, 0 - 3, 10, 10) /\ arg.width = 20 /\ arg.height = 20
    /\ OverlapsBounds
    /\ ret.rect = Rect(0, 0, 8, 7) /\ ret.offset = Point(2, 3)


\* C21: for every rectangle and every bounds the rectangle clip_within returns
\* fits within the bounds and is contained within the original rectangle; its
\* width and height are never a wrapped negative value, and for a rectangle
\* that does not overlap the bounds it is empty.
C21_ClipWithinNeverWraps ==
    Clipped =>
        \* a u32 of 2^31 or more is a wrapped negative extent
        /\ ret.rect.width >= 0 /\ ret.rect.height >= 0
        /\ 0 <= ret.rect.x /\ ret.rect.x + ret.rect.width <= arg.width
        /\ 0 <= ret.rect.y /\ ret.rect.y + ret.rect.height <= arg.height
        /\ \A x \in ClipCellXs, y \in ClipCellXs :
               InRect(ret.rect, x, y) => InRect(arg.rect, x, y)
        /\ ~OverlapsBounds => (ret.rect.width = 0 \/ ret.rect.height = 0)


\* ---------------------------------------------------------------------------
\* Properties of the preconditions of blit and of clear
\* ---------------------------------------------------------------------------

\* The rectangle lies entirely inside the planes the call acts on.
InsidePlanes(r) ==
    /\ r.x >= 0 /\ r.y >= 0
    /\ r.x + r.width <= old.width
    /\ r.y + r.height <= old.height

\* C22: blit called with dst_rect and src_rect of different width or height,
\* or with dst_rect not entirely inside the destination planes, fails with an
\* assertion failure before any cell of the three planes is modified.
C22_BlitAssertsPreconditions ==
    (/\ call.op = "blit"
     /\ \/ call.rect.width # call.src_rect.width
        \/ call.rect.height # call.src_rect.height
        \/ ~InsidePlanes(call.rect)) =>
        panicked /\ img = old

\* A blit with a source rectangle wider than the destination rectangle, both
\* inside their planes, has failed.
C22_Witness ==
    /\ call.op = "blit"
    /\ call.rect.width # call.src_rect.width
    /\ InsidePlanes(call.rect) /\ call.rect.width > 0 /\ call.rect.height > 0
    /\ call.src_rect.x >= 0 /\ call.src_rect.x + call.src_rect.width <= SrcW
    /\ call.src_rect.y >= 0 /\ call.src_rect.y + call.src_rect.height <= SrcH
    /\ panicked /\ img = old

\* C23: clear(rect, paper) with rect inside the live planes sets, for exactly
\* the cells inside rect, the foreground and background planes to paper and
\* the glyph plane to 0, and leaves every other cell unchanged; with rect not
\* inside the live planes it fails with an assertion failure.
C23_ClearFillsRect ==
    call.op = "clear" =>
        IF InsidePlanes(call.rect)
        THEN /\ ~panicked
             /\ \A x \in 0..(old.width - 1), y \in 0..(old.height - 1) :
                    CellAt(img, x, y) = IF InRect(call.rect, x, y)
                                        THEN PaperCell(call.ch.paper)
                                        ELSE CellAt(old, x, y)
        ELSE panicked /\ img = old

\* A part of the live planes has been cleared.
C23_Witness ==
    /\ call.op = "clear" /\ InsidePlanes(call.rect) /\ ~panicked
    /\ call.rect.x > 0 /\ call.rect.width > 0 /\ call.rect.height > 0
    /\ img # old


\* ---------------------------------------------------------------------------
\* Sequences of drawing calls on images of several sizes
\* ---------------------------------------------------------------------------

\* The sizes of the images: the grid, a single column, and an empty image.
SeqSizes == {<<GridW, GridH>>, <<1, GridH>>, <<0, 0>>}
SeqPoints == {Point(0 - 1, 0), Point(0, 0), Point(GridW - 1, GridH - 1)}
SeqTexts == {<<>>, <<65, 66>>}
SeqRects == {Rect(0, 0, GridW, GridH), Rect(1, 0, 1, 1), Rect(0 - 1, 0 - 1, 2, 2)}

InitSeq ==
    /\ \E size \in SeqSizes : img = Image_new(size[1], size[2])
    /\ old = img
    /\ call = NoCall
    /\ panicked = FALSE
    /\ overflow_checks = FALSE
    /\ nops = 0
    /\ arg = <<>>
    /\ ret = <<>>
    /\ LoopIdle

CanDrawNext == ~panicked /\ nops < MaxSeq

SeqClear ==
    /\ CanDrawNext
    /\ Apply(Done(Image_clear(img, Pen.ink, Pen.paper)),
             Call("clear", NoPoint, <<>>, Char(0, Pen.ink, Pen.paper), NoRect, NoRect))

SeqDrawChar ==
    /\ CanDrawNext
    /\ \E p \in SeqPoints, ch \in Chars :
         Apply(draw_char(img, p, ch), Call("draw_char", p, <<>>, ch, NoRect, NoRect))

SeqDrawString ==
    /\ CanDrawNext
    /\ \E p \in SeqPoints, text \in SeqTexts :
         Apply(draw_string(img, p, text, Pen.ink, Pen.paper),
               Call("draw_string", p, text, Char(0, Pen.ink, Pen.paper), NoRect, NoRect))

SeqDrawFilledRect ==
    /\ CanDrawNext
    /\ \E rect \in SeqRects, ch \in Chars :
         Apply(draw_filled_rect(img, rect, ch),
               Call("draw_filled_rect", NoPoint, <<>>, ch, rect, NoRect))

NextSeq == SeqClear \/ SeqDrawChar \/ SeqDrawString \/ SeqDrawFilledRect

SpecSeq == InitSeq /\ [][NextSeq]_vars

\* The three planes have length width * height.
PlanesSized(im) ==
    /\ PlaneLen(im.fore_image) = im.width * im.height
    /\ PlaneLen(im.back_image) = im.width * im.height
    /\ PlaneLen(im.text_image) = im.width * im.height

\* C24: Image::new(w, h) creates three planes of length w * h with every cell
\* zero, and after any sequence of clear, draw_char, draw_string and
\* draw_filled_rect calls the width and the height of the image are unchanged
\* and the three planes still have length width * height.
C24_PlanesKeepTheirLength ==
    /\ nops = 0 =>
           /\ PlanesSized(img)
           /\ \A k \in 0..(img.width * img.height - 1) :
                  /\ img.fore_image[k] = 0
                  /\ img.back_image[k] = 0
                  /\ img.text_image[k] = 0
    /\ nops > 0 =>
           /\ img.width = old.width /\ img.height = old.height
           /\ PlanesSized(old) => PlanesSized(img)
    /\ PlanesSized(img)

\* Three calls have been made on a grid, the last of them changing cells.
C24_Witness ==
    /\ nops >= 3 /\ ~panicked
    /\ img.width = GridW /\ img.height = GridH
    /\ call.op = "draw_string" /\ img # old
    /\ PlanesSized(img)


\* ---------------------------------------------------------------------------
\* Loading the font atlas
\* ---------------------------------------------------------------------------

\* No image is drawn on while a function is examined on its own.
NoImage ==
    /\ img = <<>>
    /\ old = <<>>
    /\ call = NoCall
    /\ panicked = FALSE
    /\ overflow_checks = FALSE
    /\ nops = 0

\* The side of the atlas in glyphs.
GlyphsPerSide == 16

\* Result<FontData, MageError>
Ok(font) == [ok |-> TRUE, font |-> font, err |-> "none"]
Err(err) == [ok |-> FALSE, font |-> <<>>, err |-> err]

\* load_font_image accepting an atlas whose sides leave a remainder.
load_font_image_accepts_remainder(width, height) ==
    LET char_width == width \div GlyphsPerSide
        char_height == height \div GlyphsPerSide
    IN IF char_width = 0 \/ char_height = 0
       THEN Err("InvalidFontImage")
       ELSE Ok(FontData(char_width, char_height))

\* load_font_image on a decoded image of the given pixel dimensions.
load_font_image(width, height) ==
    LET char_width == width \div GlyphsPerSide
        char_height == height \div GlyphsPerSide
    IN IF \/ char_width = 0
          \/ char_height = 0
          \/ char_width * GlyphsPerSide # width
          \/ char_height * GlyphsPerSide # height
       THEN Err("InvalidFontImage")
       ELSE Ok(FontData(char_width, char_height))

\* The pixel dimensions of the decoded atlas.
FontDims == 0..MaxFontDim
\* The window size run is configured with while the font is loaded.
FontWindowSize == WindowSize("DynamicCellWithCellSize", 40, 30, 1)

\* run has been called and has not loaded the font yet.
InitFont ==
    /\ NoImage
    /\ \E width \in FontDims, height \in FontDims :
         arg = [width |-> width, height |-> height]
    /\ ret = <<>>
    /\ LoopIdle

\* let font_data = load_font_image(...)? : on an error run returns it.
LoadFont ==
    /\ ret = <<>>
    /\ ret' = load_font_image(arg.width, arg.height)
    /\ stopped' = ~ret'.ok
    /\ UNCHANGED <<img, old, call, panicked, overflow_checks, nops, arg>>
    /\ UNCHANGED <<config, policy, window, render_state, can_start_resizing, shift_state,
                   exited, hist, ev>>

\* The rest of the setup of run: the policy, the window and the render state.
SetupWindow ==
    /\ ret # <<>> /\ ~stopped /\ window = <<>>
    /\ config' = [window_size |-> FontWindowSize, font |-> ret.font]
    /\ policy' = WindowSizePolicy(config'.window_size, config'.font)
    /\ window' = WindowBuilder(policy')
    /\ render_state' = RenderState_new(window'.inner_size, config'.font)
    /\ shift_state' = ShiftState_new
    /\ UNCHANGED <<can_start_resizing, exited, stopped, hist, ev>>
    /\ UNCHANGED drawVars

NextFont == LoadFont \/ SetupWindow

SpecFont == InitFont /\ [][NextFont]_vars

\* A positive exact multiple of 16.
AtlasSide(v) == v > 0 /\ v % 16 = 0

\* C25: load_font_image on a decoded image of pixel size (W, H) returns the
\* InvalidFontImage error if and only if W or H is not a positive exact
\* multiple of 16; otherwise it returns font data with char_width = W/16 and
\* char_height = H/16, so that 16*char_width = W and 16*char_height = H. The
\* failure is reported before any window or GPU state is created.
C25_LoadFontImage ==
    /\ ret = <<>> => window = <<>> /\ render_state = <<>>
    /\ ret # <<>> =>
         /\ ~ret.ok <=> ~(AtlasSide(arg.width) /\ AtlasSide(arg.height))
         /\ ~ret.ok => /\ ret.err = "InvalidFontImage"
                       /\ stopped /\ window = <<>> /\ render_state = <<>>
         /\ ret.ok => /\ ret.font.char_width = arg.width \div 16
                      /\ ret.font.char_height = arg.height \div 16
                      /\ 16 * ret.font.char_width = arg.width
                      /\ 16 * ret.font.char_height = arg.height

\* An atlas 24 pixels wide, more than one glyph column each and not a multiple
\* of 16, has been refused.
C25_Witness ==
    /\ ret # <<>> /\ ~ret.ok /\ ret.err = "InvalidFontImage"
    /\ arg.width = 24 /\ arg.height = 16
    /\ stopped /\ window = <<>>


\* ---------------------------------------------------------------------------
\* The union of two rectangles
\* ---------------------------------------------------------------------------

\* The rectangles united: empty and not, at, before and after the origin.
UnionRects ==
    {Rect(x, y, w, h) : x \in {0 - 3, 0, 2}, y \in {0 - 1, 0, 4}, w \in {0, 1, 5}, h \in {0, 2}}

InitUnion ==
    /\ NoImage
    /\ \E a \in UnionRects, b \in UnionRects : arg = [a |-> a, b |-> b]
    /\ ret = <<>>
    /\ LoopIdle

\* a.union(b)
Union ==
    /\ ret = <<>>
    /\ ret' = union(arg.a, arg.b)
    /\ UNCHANGED <<img, old, call, panicked, overflow_checks, nops, arg>>
    /\ UNCHANGED loopVars

NextUnion == Union

SpecUnion == InitUnion /\ [][NextUnion]_vars

\* The cells a rectangle of UnionRects can cover.
UnionCells == (0 - 3)..7

\* C26: for all rectangles A and B, union(A, B) contains both A and B: its
\* origin is the component-wise minimum of the two origins, and its right and
\* bottom edges are the maxima of the right and bottom edges of the two.
C26_UnionContainsBoth ==
    ret # <<>> =>
        /\ ret.x = Min(arg.a.x, arg.b.x)
        /\ ret.y = Min(arg.a.y, arg.b.y)
        /\ ret.x + ret.width = Max(arg.a.x + arg.a.width, arg.b.x + arg.b.width)
        /\ ret.y + ret.height = Max(arg.a.y + arg.a.height, arg.b.y + arg.b.height)
        /\ \A x \in UnionCells, y \in UnionCells :
               (InRect(arg.a, x, y) \/ InRect(arg.b, x, y)) => InRect(ret, x, y)

\* Two rectangles that share no cell, the second starting before the first,
\* have been united.
C26_Witness ==
    /\ ret # <<>>
    /\ arg.a = Rect(2, 4, 1, 2) /\ arg.b = Rect(0 - 3, 0 - 1, 1, 2)
    /\ ret = Rect(0 - 3, 0 - 1, 6, 7)


\* ---------------------------------------------------------------------------
\* Colours (colour.rs)
\* ---------------------------------------------------------------------------

\* 0xff000000, the alpha byte, as the 32-bit value with the same bits.
Opaque == 0 - 16777216

\* The low 24 bits of the named colours.
Named ==
    [Black     |-> 0,        Blue         |-> 8388608,
     Green     |-> 32768,    Cyan         |-> 8421376,
     Red       |-> 128,      Magenta      |-> 8388736,
     Brown     |-> 32896,    LightGray    |-> 8421504,
     DarkGray  |-> 4210752,  LightBlue    |-> 16711680,
     LightGreen |-> 65280,   LightCyan    |-> 16776960,
     LightRed  |-> 255,      LightMagenta |-> 16711935,
     Yellow    |-> 65535,    White        |-> 16777215]

Colour(name) == [name |-> name, r |-> 0, g |-> 0, b |-> 0]
Rgb(r, g, b) == [name |-> "Rgb", r |-> r, g |-> g, b |-> b]

\* Colour::colour: the bit fields do not overlap, so | is +.
colour(self) ==
    IF self.name = "Rgb"
    THEN Opaque + self.r * 65536 + self.g * 256 + self.b
    ELSE Opaque + Named[self.name]

\* The u8 values of a channel.
Levels == {0, 1, 64, 128, 255}
Colours == {Colour(name) : name \in DOMAIN Named}
               \cup {Rgb(r, g, b) : r \in Levels, g \in Levels, b \in Levels}

InitColour ==
    /\ NoImage
    /\ arg \in Colours
    /\ ret = <<>>
    /\ LoopIdle

\* c.colour()
ColourOf ==
    /\ ret = <<>>
    /\ ret' = [colour |-> colour(arg)]
    /\ UNCHANGED <<img, old, call, panicked, overflow_checks, nops, arg>>
    /\ UNCHANGED loopVars

NextColour == ColourOf

SpecColour == InitColour /\ [][NextColour]_vars

\* C30: Colour::Rgb(r, g, b).colour() is in the layout of the cell planes and
\* of the named colours, red in the low 8 bits, green in the next 8, blue in
\* the next 8 and alpha 0xff in the top 8: it equals
\* 0xff000000 + b*65536 + g*256 + r, so that Rgb(128,0,0) equals Colour::Red
\* and Rgb(0,0,255) equals Colour::LightBlue.
C30_RgbInPlaneLayout ==
    (ret # <<>> /\ arg.name = "Rgb") =>
        /\ ret.colour = Opaque + arg.b * 65536 + arg.g * 256 + arg.r
        /\ arg = Rgb(128, 0, 0) => ret.colour = colour(Colour("Red"))
        /\ arg = Rgb(0, 0, 255) => ret.colour = colour(Colour("LightBlue"))


\* ---------------------------------------------------------------------------
\* Sequences of resize calls on the render state
\* ---------------------------------------------------------------------------

\* The fonts and the window the render state is constructed with.
ResizeFonts == {FontData(8, 8), FontData(4, 6)}
ResizeWindow == <<320, 240>>
\* The pixel sizes resize is called with: a zero dimension, less than a font
\* cell, one cell, and whole and ragged numbers of cells.
ResizeSizes == {<<w, h>> : w \in {0, 3, 8, 320, 325, 640}, h \in {0, 5, 8, 240, 245, 480}}

\* RenderState::new(window, font)
InitResize ==
    /\ NoImage
    /\ arg = <<>>
    /\ ret = <<>>
    /\ \E font \in ResizeFonts :
         config = [window_size |-> ResizeWindow, font |-> font]
    /\ policy = <<>>
    /\ window = <<>>
    /\ render_state = RenderState_new(config.window_size, config.font)
    /\ can_start_resizing = FALSE
    /\ shift_state = <<>>
    /\ exited = FALSE
    /\ stopped = FALSE
    /\ hist = <<>>
    /\ ev = [kind |-> "new", size |-> config.window_size, before |-> render_state]

\* render_state.resize(new_size)
ResizeTo ==
    /\ \E new_size \in ResizeSizes :
         /\ render_state' = resize(render_state, new_size)
         /\ ev' = [kind |-> "resize", size |-> new_size, before |-> render_state]
    /\ UNCHANGED <<config, policy, window, can_start_resizing, shift_state, exited, stopped,
                   hist>>
    /\ UNCHANGED drawVars

\* The app draws on the live planes handed out by images().
DrawOnPlanes ==
    /\ render_state' = present(render_state, "Changed")
    /\ ev' = [kind |-> "present", size |-> NoSize, before |-> render_state]
    /\ UNCHANGED <<config, policy, window, can_start_resizing, shift_state, exited, stopped,
                   hist>>
    /\ UNCHANGED drawVars

NextResize == ResizeTo \/ DrawOnPlanes

SpecResize == InitResize /\ [][NextResize]_vars

\* C27: after the construction of the render state and any sequence of resize
\* calls (sizes with a zero dimension, which change nothing, and sizes smaller
\* than a font cell included), each of the three live planes has length grid
\* width times grid height as returned by size_in_chars, and size_in_chars is
\* the configured surface pixel size divided (integer division) by the pixel
\* size of the font cell.
C27_PlanesMatchGrid ==
    LET grid == size_in_chars(render_state)
    IN /\ render_state.fg_texture.storage.len = grid[1] * grid[2]
       /\ render_state.bg_texture.storage.len = grid[1] * grid[2]
       /\ render_state.chars_texture.storage.len = grid[1] * grid[2]
       /\ grid[1] = render_state.surface_config[1] \div config.font.char_width
       /\ grid[2] = render_state.surface_config[2] \div config.font.char_height
       /\ (ev.kind = "resize" /\ (ev.size[1] = 0 \/ ev.size[2] = 0)) =>
              render_state = ev.before

\* The render state of a 640x480 surface has been resized to less than a font
\* cell: the grid and the planes are empty.
C27_Witness ==
    /\ ev.kind = "resize" /\ ev.size = <<3, 5>>
    /\ ev.before.surface_config = <<640, 480>>
    /\ render_state.surface_config = <<3, 5>>
    /\ size_in_chars(render_state) = <<0, 0>>
    /\ render_state.chars_texture.storage.len = 0


\* ---------------------------------------------------------------------------
\* Properties of the fullscreen toggle and of the snap re-request
\* ---------------------------------------------------------------------------

\* The window has been toggled and no Resized event, or only the first one,
\* has been handled since.
TogglePending == ev.kind # "none" /\ hist.frozen # <<>>

\* The handler of the last event is that of the first Resized event after a
\* toggle.
FirstResizedAfterToggle == TogglePending /\ ev.kind = "Resized"

\* The surface size and the grid are as they were at the toggle.
SurfaceAsAtToggle ==
    /\ render_state.surface_config = hist.frozen.surface_config
    /\ size_in_chars(render_state) = hist.frozen.surface_char_size

\* C28 as stated: a fullscreen toggle (alt+enter with no other modifier held)
\* re-arms the ignore-first-resize latch: the next resize event after the
\* toggle is ignored (no GPU-layer resize, no snap re-request), so the grid
\* dimensions and the surface configuration stay at their pre-toggle values
\* until a further resize event arrives.
C28_ToggleFreezesSurface ==
    /\ FirstResizedAfterToggle => ResizeIgnored
    /\ TogglePending => SurfaceAsAtToggle

\* C28 amended: the next resize event after the toggle is ignored (no
\* GPU-layer resize, no snap re-request), so the grid dimensions and the
\* surface configuration stay at their pre-toggle values until a further
\* resize event arrives, unless a scale-factor change or a lost surface makes
\* the engine resize the GPU layer in between.
C28_ToggleReArmsLatch ==
    /\ (ev.kind = "Enter" /\ ev.outcome = "toggle") => ~can_start_resizing /\ TogglePending
    /\ FirstResizedAfterToggle => ResizeIgnored /\ can_start_resizing
    /\ (TogglePending /\ ~hist.frozen.resized) => SurfaceAsAtToggle

\* The window has been resized by the user, then toggled to fullscreen, and
\* the Resized event of the toggle has been ignored: the surface keeps the
\* size of before the toggle while the window has the size of the monitor.
C28_Witness ==
    /\ FirstResizedAfterToggle /\ ResizeIgnored
    /\ hist.resizes = 2
    /\ window.fullscreen /\ ev.size = MonitorSize
    /\ SurfaceAsAtToggle
    /\ render_state.surface_config # window.inner_size

\* The last event is a Resized event carrying the size the handler of the
\* previous Resized event asked the host for.
AnswersReRequest == ev.kind = "Resized" /\ ev.answers

====
